---------------------------- MODULE Spec2Model ----------------------------
(***************************************************************************)
(* A model of the replication pipeline: the pipeline driver                *)
(* (dt-pipeline/src/base_pipeline.rs), a producer that fills the bounded   *)
(* queue, the MySQL snapshot extractor                                      *)
(* (src/extractor/mysql_snapshot_extractor.rs), the PostgreSQL CDC          *)
(* extractor (src/extractor/pg/pg_cdc_extractor.rs), the sinker mutexes     *)
(* and the batch loop of the sinkers                                        *)
(* (dt-connector/src/sinker/base_sinker.rs).                                *)
(*                                                                         *)
(* Positions are naturals; NoPos stands for Option::None and for the       *)
(* syncer's initial Position::None, which is below every real position.    *)
(***************************************************************************)
EXTENDS Naturals, Sequences, FiniteSets

\* ------------------------------------------------------------------ bounds
MaxItems == 3        \* items the generic producer pushes in one run
QueueCap == 2        \* capacity of the bounded queue
NumSinkers == 2      \* parallel_size: the length of the sinker vector
MaxInterval == 1     \* largest batch_sink_/checkpoint_interval_secs tried
MaxRows == 3         \* rows of the table the snapshot extractor scans
MaxSlice == 2        \* largest slice_size tried

NoPos == 0

Kinds == {"Dml", "Ddl", "Begin", "Commit", "Redis", "RedisPing"}
Sinkers == 1 .. NumSinkers

VARIABLES
    buffer,                  \* BasePipeline::buffer, the bounded queue (FIFO)
    shut_down,               \* the shared AtomicBool
    cfg,                     \* source, batch_sink_interval_secs, checkpoint_interval_secs, lua_processor
    pPc,                     \* where start() is: check, decide, drain, sink, returned, panicked
    data,                    \* the batch drained in this tick
    sinkElapsed,             \* last_sink_time.elapsed().as_secs(), followed up to the interval
    ckptElapsed,             \* last_checkpoint_time.elapsed().as_secs(), followed up to the interval
    last_received_position,  \* start()'s local
    last_commit_position,    \* start()'s local
    syncer,                  \* [received_position, committed_position]
    fault,                   \* what made start() or stop() panic: none, transformer, parallelizer, refresh_meta, close
    sinkerMeta,              \* per sinker: the ids of the DDL items it has refreshed its metadata from
    closeCount,              \* per sinker: how often close() was called on it
    parClosed,               \* parallelizer.close() was called
    sPc,                     \* where stop() is: idle, closing, parallelizer, done, panicked
    closeIdx,                \* the sinker the close loop of stop() is at
    pushed,                  \* history: every item pushed, in push order
    drained,                 \* history: every item popped by drain, in pop order
    sunk,                    \* history: every parallelizer sink_* call, [method, ids, lua]
    prodDone,                \* the producer has finished: it pushes nothing more
    ext,                     \* the snapshot extractor: its table, slice_size and locals
    lk,                      \* the sinker mutexes and the tasks that take them
    cdc,                     \* the PostgreSQL CDC extractor: its metadata, locals and outcome
    bat,                     \* one expansion of call_batch_fn: its locals and the calls it made
    sr,                      \* one StarRocksSinker::sink_dml call: its input, requests and monitor
    kf                       \* one RdkafkaSinker::sink_dml call: its futures, sends and monitor

pipeVars == <<pPc, data, sinkElapsed, ckptElapsed,
              last_received_position, last_commit_position, syncer, fault,
              sinkerMeta, drained, sunk>>
stopVars == <<closeCount, parClosed, sPc, closeIdx>>
prodVars == <<pushed, prodDone, ext>>
sinkVars == <<sr, kf>>
compVars == <<lk, cdc, bat, sinkVars>>
vars == <<buffer, shut_down, cfg, pipeVars, stopVars, prodVars, compVars>>

\* ------------------------------------------------------------ the queue
IsEmpty(q) == Len(q) = 0
IsFull(q) == Len(q) >= QueueCap

Ids(items) == {items[k].id : k \in 1 .. Len(items)}
IdSeq(items) == [k \in 1 .. Len(items) |-> items[k].id]

\* --------------------------------------------------- classification, fetch
IsRedis(k) == k \in {"Redis", "RedisPing"}

\* A classification that looks at the first item only.
get_sink_method_first(d) ==
    IF d = <<>> THEN "Raw"
    ELSE LET k == Head(d).kind IN
         IF k = "Ddl" THEN "Ddl"
         ELSE IF k = "Dml" THEN "Dml"
         ELSE "Raw"

RECURSIVE get_sink_method(_)
get_sink_method(d) ==
    IF d = <<>> THEN "Raw"
    ELSE LET k == Head(d).kind IN
         IF k = "Ddl" THEN "Ddl"
         ELSE IF k = "Dml" THEN "Dml"
         ELSE IF IsRedis(k) THEN "Raw"
         ELSE get_sink_method(Tail(d))

FetchInit == [data |-> <<>>, last_received |-> NoPos, last_commit |-> NoPos]

\* fetch_raw whose Commit arm also keeps the item as payload.
fetch_raw_step_keep_commit(acc, i) ==
    CASE i.kind = "Commit" ->
            [acc EXCEPT !.last_commit = i.pos, !.last_received = i.pos,
                        !.data = Append(@, i)]
      [] IsRedis(i.kind) ->
            [data |-> IF i.kind = "RedisPing" THEN acc.data ELSE Append(acc.data, i),
             last_received |-> i.pos,
             last_commit |-> i.pos]
      [] i.kind = "Begin" -> acc
      [] OTHER ->
            [acc EXCEPT !.last_received = i.pos, !.data = Append(@, i)]

\* One iteration of the loop of fetch_raw.
fetch_raw_step(acc, i) ==
    CASE i.kind = "Commit" ->
            [acc EXCEPT !.last_commit = i.pos, !.last_received = i.pos]
      [] IsRedis(i.kind) ->
            [data |-> IF i.kind = "RedisPing" THEN acc.data ELSE Append(acc.data, i),
             last_received |-> i.pos,
             last_commit |-> i.pos]
      [] i.kind = "Begin" -> acc
      [] OTHER ->
            [acc EXCEPT !.last_received = i.pos, !.data = Append(@, i)]

\* fetch_dml whose Commit arm forgets to move last_received.
fetch_dml_step_commit_only(acc, i) ==
    CASE i.kind = "Commit" -> [acc EXCEPT !.last_commit = i.pos]
      [] i.kind = "Dml" ->
            [acc EXCEPT !.last_received = i.pos, !.data = Append(@, i)]
      [] OTHER -> acc

\* fetch_dml that puts each row in front of the rows before it.
fetch_dml_step_prepend(acc, i) ==
    CASE i.kind = "Commit" ->
            [acc EXCEPT !.last_commit = i.pos, !.last_received = i.pos]
      [] i.kind = "Dml" ->
            [acc EXCEPT !.last_received = i.pos, !.data = <<i>> \o @]
      [] OTHER -> acc

\* One iteration of the loop of fetch_dml.
fetch_dml_step(acc, i) ==
    CASE i.kind = "Commit" ->
            [acc EXCEPT !.last_commit = i.pos, !.last_received = i.pos]
      [] i.kind = "Dml" ->
            [acc EXCEPT !.last_received = i.pos, !.data = Append(@, i)]
      [] OTHER -> acc

\* One iteration of the loop of fetch_ddl.
fetch_ddl_step(acc, i) ==
    CASE i.kind = "Commit" ->
            [acc EXCEPT !.last_commit = i.pos, !.last_received = i.pos]
      [] i.kind = "Ddl" ->
            [acc EXCEPT !.last_received = i.pos, !.data = Append(@, i)]
      [] OTHER -> acc

RECURSIVE fetch_raw_loop(_, _)
fetch_raw_loop(d, acc) ==
    IF d = <<>> THEN acc ELSE fetch_raw_loop(Tail(d), fetch_raw_step(acc, Head(d)))

RECURSIVE fetch_dml_loop(_, _)
fetch_dml_loop(d, acc) ==
    IF d = <<>> THEN acc ELSE fetch_dml_loop(Tail(d), fetch_dml_step(acc, Head(d)))

RECURSIVE fetch_ddl_loop(_, _)
fetch_ddl_loop(d, acc) ==
    IF d = <<>> THEN acc ELSE fetch_ddl_loop(Tail(d), fetch_ddl_step(acc, Head(d)))

fetch_raw(d) == fetch_raw_loop(d, FetchInit)
fetch_dml(d) == fetch_dml_loop(d, FetchInit)
fetch_ddl(d) == fetch_ddl_loop(d, FetchInit)

\* The fetch that the sink_* chosen by get_sink_method applies.
Fetch(m, d) ==
    CASE m = "Ddl" -> fetch_ddl(d)
      [] m = "Dml" -> fetch_dml(d)
      [] OTHER -> fetch_raw(d)


\* ------------------------------------------------------- pipeline driver
\* A loop that runs only while the flag is unset and the queue holds items.
LoopCondAnd(sd, empty) == (~sd) /\ (~empty)

\* A loop that stops as soon as the flag is set.
LoopCondFlagOnly(sd, empty) == ~sd

\* The condition of start()'s while loop. The flag is read first and the queue
\* only when the flag is set; the flag is never cleared, so reading both in one
\* step yields the same outcomes as the two reads in sequence.
LoopCond(sd, empty) == (~sd) \/ (~empty)

\* A driver that drains only a full queue.
ShouldDrainOnlyFull(elapsed, interval, full) == full

\* Whether this tick drains the queue (the else branch of the batch decision).
ShouldDrain(elapsed, interval, full) == ~(elapsed < interval /\ ~full)

\* A driver that stores last_received without testing it for None.
ReceivedAfterTickUnchecked(old, last_received) == last_received

\* syncer.received_position after the tick's sink_* call has returned.
ReceivedAfterTick(old, last_received) ==
    IF last_received # NoPos THEN last_received ELSE old

\* A record_checkpoint that does not wait for the interval.
record_checkpoint_always(elapsed, interval, commit_position, committed) ==
    IF commit_position # NoPos THEN commit_position ELSE committed

\* record_checkpoint: the committed position it leaves in the syncer.
record_checkpoint(elapsed, interval, commit_position, committed) ==
    IF elapsed < interval THEN committed
    ELSE IF commit_position # NoPos THEN commit_position
    ELSE committed

\* record_checkpoint: the elapsed time of the last_checkpoint_time it returns.
checkpoint_elapsed(elapsed, interval) ==
    IF elapsed < interval THEN elapsed ELSE 0

PCheck ==
    /\ pPc = "check"
    /\ pPc' = IF LoopCond(shut_down, IsEmpty(buffer)) THEN "decide" ELSE "returned"
    /\ UNCHANGED <<buffer, shut_down, cfg, compVars, data, sinkElapsed,
                   ckptElapsed, last_received_position, last_commit_position,
                   syncer, fault, sinkerMeta, drained, sunk, stopVars, prodVars>>

PDecide ==
    /\ pPc = "decide"
    /\ data' = <<>>
    /\ IF ShouldDrain(sinkElapsed, cfg.batch_sink_interval_secs, IsFull(buffer))
       THEN sinkElapsed' = 0 /\ pPc' = "drain"
       ELSE sinkElapsed' = sinkElapsed /\ pPc' = "sink"
    /\ UNCHANGED <<buffer, shut_down, cfg, compVars, ckptElapsed,
                   last_received_position, last_commit_position, syncer, fault,
                   sinkerMeta, drained, sunk, stopVars, prodVars>>

\* parallelizer.drain: pops until the queue reports empty.
PDrain ==
    /\ pPc = "drain"
    /\ IF ~IsEmpty(buffer)
       THEN /\ data' = Append(data, Head(buffer))
            /\ drained' = Append(drained, Head(buffer))
            /\ buffer' = Tail(buffer)
            /\ pPc' = pPc
       ELSE /\ pPc' = "sink"
            /\ UNCHANGED <<data, drained, buffer>>
    /\ UNCHANGED <<shut_down, cfg, compVars, sinkElapsed, ckptElapsed,
                   last_received_position, last_commit_position, syncer, fault,
                   sinkerMeta, sunk, stopVars, prodVars>>

\* What the tick's sink_* call can end in: "ok", an error of the transformer or
\* of the parallelizer's sink_*, or an error of refresh_meta on sinker `at`.
\* Every error is unwrapped on the way up, so start() panics.
SinkOutcomes ==
    {[kind |-> k, at |-> 0] : k \in {"ok", "transformer", "parallelizer"}}
        \cup {[kind |-> "refresh_meta", at |-> s] : s \in Sinkers}

\* A sink_ddl that refreshes only the first sinker.
RefreshTargetsFirstOnly(outcome) == {1}

\* The sinkers the refresh_meta loop of sink_ddl reaches: all of them, or
\* those up to the one whose refresh_meta fails.
RefreshTargets(outcome) ==
    IF outcome.kind = "refresh_meta" THEN 1 .. (outcome.at - 1) ELSE Sinkers

\* Whether sink_ddl's refresh_meta loop runs: after a parallelizer.sink_ddl
\* that returned Ok.
RefreshRuns(m, count, outcome) ==
    m = "Ddl" /\ count > 0 /\ outcome.kind \notin {"transformer", "parallelizer"}

\* Whether the tick's sink_* call returned Ok to start().
TickOk(outcome) == outcome.kind = "ok"

\* A driver that stores the tick's positions whether or not its sink_* call
\* succeeded.
PositionsAdvanceAlways(outcome) == TRUE

\* Whether the tick reaches the code after the sink_* call, which stores the
\* positions and calls record_checkpoint: only past the unwrap of the call.
PositionsAdvance(outcome) == TickOk(outcome)

\* A driver that runs the transformer in each of its sink_* functions.
CallsTransformerAnyMethod(m, count, configured) == count > 0 /\ configured

\* Whether the tick runs lua_processor.process: in sink_dml, on a non-empty
\* fetch, when a processor is configured.
CallsTransformer(m, count, configured) == m = "Dml" /\ count > 0 /\ configured

\* The body of one tick from get_sink_method on: the chosen sink_* with its
\* transformer, parallelizer and refresh_meta calls, then the positions,
\* record_checkpoint and the 1 ms sleep. None of it reads the queue or the
\* shutdown flag, so it is one step.
PSinkWith(outcomes) ==
    /\ pPc = "sink"
    /\ \E outcome \in outcomes :
         LET m == get_sink_method(data)
             f == Fetch(m, data)
             count == Len(f.data)
             callsLua == CallsTransformer(m, count, cfg.lua_processor)
             parCalled == count > 0 /\ outcome.kind # "transformer"
             parOk == parCalled /\ outcome.kind # "parallelizer"
             received == ReceivedAfterTick(syncer.received_position, f.last_received)
             lrp == IF f.last_received # NoPos THEN f.last_received
                    ELSE last_received_position
             lcp == IF f.last_commit # NoPos THEN f.last_commit
                    ELSE last_commit_position
         IN  /\ outcome.kind = "transformer" => callsLua
             /\ outcome.kind = "parallelizer" => count > 0
             /\ outcome.kind = "refresh_meta" => (m = "Ddl" /\ count > 0)
             /\ sunk' = IF parCalled
                        THEN Append(sunk, [method |-> m, ids |-> IdSeq(f.data),
                                           lua |-> callsLua, ok |-> parOk])
                        ELSE sunk
             /\ sinkerMeta' =
                    IF RefreshRuns(m, count, outcome)
                    THEN [s \in Sinkers |->
                            IF s \in RefreshTargets(outcome)
                            THEN sinkerMeta[s] \cup Ids(f.data) ELSE sinkerMeta[s]]
                    ELSE sinkerMeta
             /\ IF PositionsAdvance(outcome)
                THEN /\ last_received_position' = lrp
                     /\ last_commit_position' = lcp
                     /\ syncer' = [received_position |-> received,
                                   committed_position |->
                                       record_checkpoint(ckptElapsed,
                                           cfg.checkpoint_interval_secs, lcp,
                                           syncer.committed_position)]
                     /\ ckptElapsed' = checkpoint_elapsed(ckptElapsed,
                                           cfg.checkpoint_interval_secs)
                ELSE UNCHANGED <<last_received_position, last_commit_position,
                                 syncer, ckptElapsed>>
             /\ IF TickOk(outcome)
                THEN pPc' = "check" /\ fault' = fault
                ELSE pPc' = "panicked" /\ fault' = outcome.kind
    /\ data' = <<>>
    /\ UNCHANGED <<buffer, shut_down, cfg, compVars, sinkElapsed, drained, stopVars, prodVars>>

\* The tick body with a parallelizer and sinkers that may fail in any way.
PSink == PSinkWith(SinkOutcomes)

Running == pPc \notin {"returned", "panicked"}

\* elapsed().as_secs() one second later. Each timer is only ever compared with
\* its interval, so it is followed up to that interval.
Later(elapsed, interval) == IF elapsed < interval THEN elapsed + 1 ELSE elapsed

\* A second of wall-clock time passes while start() runs (its timers are locals).
SecondPasses ==
    /\ Running
    /\ sinkElapsed' = Later(sinkElapsed, cfg.batch_sink_interval_secs)
    /\ ckptElapsed' = Later(ckptElapsed, cfg.checkpoint_interval_secs)
    /\ UNCHANGED <<buffer, shut_down, cfg, compVars, pPc, data,
                   last_received_position, last_commit_position, syncer, fault,
                   sinkerMeta, drained, sunk, stopVars, prodVars>>

Pipeline == PCheck \/ PDecide \/ PDrain \/ PSink

\* ----------------------------------------------------------------- stop()
\* A close loop that skips every other sinker.
NextCloseSkip(i) == i + 2

\* The sinker after `i` in the close loop of stop().
NextClose(i) == i + 1

\* What stop() does once its sinker loop is over.
AfterCloseLoop == "parallelizer"

\* stop() is called; it borrows the pipeline mutably, as start() does, so it
\* runs once start() has returned.
SBegin ==
    /\ pPc = "returned"
    /\ sPc = "idle"
    /\ sPc' = "closing"
    /\ closeIdx' = 1
    /\ UNCHANGED <<buffer, shut_down, cfg, compVars, pipeVars, closeCount, parClosed,
                   prodVars>>

SClose ==
    /\ sPc = "closing"
    /\ closeCount' = [closeCount EXCEPT ![closeIdx] = @ + 1]
    /\ \E outcome \in {"ok", "close"} :
         IF outcome = "ok"
         THEN /\ closeIdx' = NextClose(closeIdx)
              /\ sPc' = IF NextClose(closeIdx) > NumSinkers THEN AfterCloseLoop ELSE "closing"
              /\ fault' = fault
         ELSE /\ sPc' = "panicked"
              /\ fault' = outcome
              /\ closeIdx' = closeIdx
    /\ UNCHANGED <<buffer, shut_down, cfg, compVars, pPc, data, sinkElapsed,
                   ckptElapsed, last_received_position, last_commit_position,
                   syncer, sinkerMeta, drained, sunk, parClosed, prodVars>>

SParClose ==
    /\ sPc = "parallelizer"
    /\ parClosed' = TRUE
    /\ sPc' = "done"
    /\ UNCHANGED <<buffer, shut_down, cfg, compVars, pipeVars, closeCount, closeIdx,
                   prodVars>>

Stop == SBegin \/ SClose \/ SParClose

\* ------------------------------------------------------- generic producer
\* The model follows one run of start() and the stop() after it: the producer
\* and the clock are followed while start() runs.
LastPos == IF pushed = <<>> THEN NoPos ELSE pushed[Len(pushed)].pos

\* What an extractor of each kind of source puts in the queue: a relational
\* CDC stream carries transactions and DDL, a Redis stream carries commands.
SourceKinds(source) ==
    IF source = "redis" THEN {"Redis", "RedisPing"}
    ELSE {"Dml", "Ddl", "Begin", "Commit"}

\* The positions the next item may carry: positions never decrease.
NextPositions(last) == {last + 1}

\* An extractor pushes one item; it waits while the queue is full. Positions
\* never decrease along the queue.
Push ==
    /\ Running
    /\ ~prodDone
    /\ Len(pushed) < MaxItems
    /\ ~IsFull(buffer)
    /\ ext.pc = "off"
    /\ \E k \in SourceKinds(cfg.source), p \in NextPositions(LastPos) :
         LET item == [kind |-> k, pos |-> p, id |-> Len(pushed) + 1]
         IN  /\ buffer' = Append(buffer, item)
             /\ pushed' = Append(pushed, item)
    /\ UNCHANGED <<shut_down, cfg, compVars, pipeVars, stopVars, prodDone, ext>>

ProducerFinish ==
    /\ Running
    /\ ext.pc = "off"
    /\ ~prodDone
    /\ prodDone' = TRUE
    /\ UNCHANGED <<buffer, shut_down, cfg, compVars, pipeVars, stopVars, pushed, ext>>

\* External control sets the shutdown flag.
ExternalShutdown ==
    /\ Running
    /\ ext.pc = "off"
    /\ ~shut_down
    /\ shut_down' = TRUE
    /\ UNCHANGED <<buffer, cfg, compVars, pipeVars, stopVars, prodVars>>

\* ------------------------------------------------------- sinker mutexes
\* BasePipeline::sinkers is a Vec<Arc<async_mutex::Mutex<Box<dyn Sinker>>>>:
\* a task reaches a sinker only through the guard that lock().await returns,
\* and the guard is released when the statement that took it ends. The tasks
\* are the pipeline driver and the branches one parallelizer sink_* call runs.
NumBranches == 2     \* branches one parallelizer call runs concurrently

Driver == 0
Branches == 1 .. NumBranches
NoTask == NumBranches + 1

SinkOps == {"sink_dml", "sink_ddl", "sink_raw"}

\* A mutex that hands out its guard whether or not it is held.
CanLockAlways(holder) == TRUE

\* async_mutex::Mutex::lock completes only while no guard is out.
CanLock(holder) == holder = NoTask

BranchIdle == [sinker |-> 1, pc |-> "idle"]

LkInit ==
    [pc |-> "idle", op |-> "none", idx |-> 1,
     holder |-> [s \in Sinkers |-> NoTask],
     inside |-> [s \in Sinkers |-> {}],
     br |-> [b \in Branches |-> BranchIdle]]

\* One tick's parallelizer.sink_* call: it starts its branches, each bound to
\* one sinker of the vector, and awaits them all.
LTick ==
    /\ lk.pc = "idle"
    /\ \E op \in SinkOps, a \in [Branches -> Sinkers] :
         lk' = [lk EXCEPT !.pc = "par", !.op = op,
                          !.br = [b \in Branches |-> [sinker |-> a[b], pc |-> "waiting"]]]
    /\ UNCHANGED <<buffer, shut_down, cfg, pipeVars, stopVars, prodVars, cdc, bat, sinkVars>>

\* A branch's sinker.lock().await completes.
BLock(b) ==
    /\ lk.br[b].pc = "waiting"
    /\ CanLock(lk.holder[lk.br[b].sinker])
    /\ lk' = [lk EXCEPT !.br[b].pc = "inside",
                        !.holder[lk.br[b].sinker] = b,
                        !.inside[lk.br[b].sinker] = @ \cup {b}]
    /\ UNCHANGED <<buffer, shut_down, cfg, pipeVars, stopVars, prodVars, cdc, bat, sinkVars>>

\* The branch's sink_* on the sinker returns and the guard is dropped.
BUnlock(b) ==
    /\ lk.br[b].pc = "inside"
    /\ lk' = [lk EXCEPT !.br[b].pc = "done",
                        !.holder[lk.br[b].sinker] = NoTask,
                        !.inside[lk.br[b].sinker] = @ \ {b}]
    /\ UNCHANGED <<buffer, shut_down, cfg, pipeVars, stopVars, prodVars, cdc, bat, sinkVars>>

\* All branches are done: the parallelizer call returns to the driver, which
\* after sink_ddl goes on to the refresh_meta loop.
LJoin ==
    /\ lk.pc = "par"
    /\ \A b \in Branches : lk.br[b].pc = "done"
    /\ lk' = [lk EXCEPT !.pc = IF lk.op = "sink_ddl" THEN "refresh" ELSE "idle",
                        !.idx = 1,
                        !.br = [b \in Branches |-> BranchIdle]]
    /\ UNCHANGED <<buffer, shut_down, cfg, pipeVars, stopVars, prodVars, cdc, bat, sinkVars>>

\* stop() is called between ticks and starts its close loop.
LStop ==
    /\ lk.pc = "idle"
    /\ lk' = [lk EXCEPT !.pc = "close", !.idx = 1, !.op = "none"]
    /\ UNCHANGED <<buffer, shut_down, cfg, pipeVars, stopVars, prodVars, cdc, bat, sinkVars>>

\* The driver's sinker.lock().await in the refresh_meta loop or the close loop.
DLock ==
    /\ lk.pc \in {"refresh", "close"}
    /\ Driver \notin lk.inside[lk.idx]
    /\ CanLock(lk.holder[lk.idx])
    /\ lk' = [lk EXCEPT !.holder[lk.idx] = Driver,
                        !.inside[lk.idx] = @ \cup {Driver}]
    /\ UNCHANGED <<buffer, shut_down, cfg, pipeVars, stopVars, prodVars, cdc, bat, sinkVars>>

\* refresh_meta or close returns, the guard is dropped, the loop moves on.
DUnlock ==
    /\ lk.pc \in {"refresh", "close"}
    /\ Driver \in lk.inside[lk.idx]
    /\ lk' = [lk EXCEPT !.holder[lk.idx] = NoTask,
                        !.inside[lk.idx] = @ \ {Driver},
                        !.idx = IF lk.idx < NumSinkers THEN lk.idx + 1 ELSE 1,
                        !.pc = IF lk.idx < NumSinkers THEN lk.pc
                               ELSE IF lk.pc = "refresh" THEN "idle" ELSE "stopped"]
    /\ UNCHANGED <<buffer, shut_down, cfg, pipeVars, stopVars, prodVars, cdc, bat, sinkVars>>

BranchSteps == \E b \in Branches : BLock(b) \/ BUnlock(b)

\* ------------------------------------------------ PostgreSQL CDC extractor
\* The replication stream is a sequence of messages; each step of the loop of
\* extract_internal takes the next one. A tuple is the sequence of its
\* columns' TupleData tags. A decoded column map sends a column name to the
\* index of the tuple element it was read from and to what was read.
MaxLsn == 2          \* largest LSN a source Commit carries
MaxMsgs == 3         \* messages of a finite replication stream

HardCodedLsn == 740822640    \* "0/2C280E70" as a PgLsn

RelIds == {1, 2}
ColLists == {<<"c1", "c2", "c3">>, <<"c3", "c1", "c2">>, <<"c2", "c1">>}
WhereColSets == {{}, {"c1"}}
Tuples == {<<"Text", "Null", "Text">>, <<"Text", "Text">>, <<"Text", "Toast", "Text">>}
ImageTuples == {<<"Text", "Null", "Text">>, <<"Text", "Toast", "Text">>}
NoTuple == <<"absent">>
Endless == MaxMsgs + 1
RowTypes == {"Insert", "Update", "Delete"}

EmptyMap == [c \in {} |-> 0]
NoMeta == [known |-> FALSE, cols |-> <<>>, where_cols |-> {}]
\* An absent image that reads as a present, empty one.
EmptyImage == [some |-> TRUE, map |-> EmptyMap]

\* Option::None as the before or after image of a RowData.
NoImage == [some |-> FALSE, map |-> EmptyMap]
NoRow == [kind |-> "none", pos |-> NoPos, id |-> 0, rel |-> 0, row_type |-> "none",
          before |-> NoImage, after |-> NoImage]

EvBase ==
    [type |-> "Begin", rel |-> 0, cols |-> <<>>, where_cols |-> {}, oid_known |-> TRUE,
     tuple |-> NoTuple, old |-> NoTuple, key |-> NoTuple, lsn |-> NoPos, reply |-> 0]

\* An Update or Delete carries an old tuple, a key tuple or neither.
OldKeyPairs ==
    {<<NoTuple, NoTuple>>} \cup {<<t, NoTuple>> : t \in ImageTuples}
        \cup {<<NoTuple, t>> : t \in ImageTuples}

RelationEvents ==
    {[EvBase EXCEPT !.type = "Relation", !.rel = r, !.cols = c, !.where_cols = w,
                    !.oid_known = k] :
        r \in RelIds, c \in ColLists, w \in WhereColSets, k \in BOOLEAN}
InsertEvents ==
    {[EvBase EXCEPT !.type = "Insert", !.rel = r, !.tuple = t] :
        r \in RelIds, t \in Tuples}
UpdateEvents ==
    {[EvBase EXCEPT !.type = "Update", !.rel = r, !.tuple = t,
                    !.old = ok[1], !.key = ok[2]] :
        r \in RelIds, t \in Tuples, ok \in OldKeyPairs}
DeleteEvents ==
    {[EvBase EXCEPT !.type = "Delete", !.rel = r, !.old = ok[1], !.key = ok[2]] :
        r \in RelIds, ok \in OldKeyPairs}
CommitEvents == {[EvBase EXCEPT !.type = "Commit", !.lsn = l] : l \in 1 .. MaxLsn}
KeepAliveEvents == {[EvBase EXCEPT !.type = "KeepAlive", !.reply = f] : f \in {0, 1}}
PlainEvents == {[EvBase EXCEPT !.type = t] : t \in {"Begin", "Truncate", "StreamEnd"}}

\* Every message the decoder is tried on.
Events ==
    RelationEvents \cup InsertEvents \cup UpdateEvents \cup DeleteEvents
        \cup CommitEvents \cup KeepAliveEvents \cup PlainEvents

\* The messages of a well-formed stream on one three-column table, as the
\* extractor meets them while the pipeline driver runs.
PipeEvents ==
    {e \in Events :
        \/ e.type \in {"Begin", "Commit", "KeepAlive"}
        \/ /\ e.type = "Relation"
           /\ e.rel = 1 /\ e.cols = <<"c1", "c2", "c3">> /\ e.where_cols = {"c1"}
           /\ e.oid_known
        \/ e.type = "Insert" /\ e.rel = 1 /\ e.tuple = <<"Text", "Null", "Text">>
        \/ /\ e.type = "Delete" /\ e.rel = 1
           /\ e.old = <<"Text", "Null", "Text">> /\ e.key = NoTuple}

\* A decoder that reads tuple element i into the column i places from the end.
ColOfReversed(cols, i) == cols[Len(cols) + 1 - i]

\* parse_row_data: the column of tuple element i is tb_meta.cols[i].
ColOf(cols, i) == cols[i]

\* A decoder that reads an UnchangedToast column as a NULL.
ToastOutcomeNull == "ok"

\* parse_row_data: what an UnchangedToast column makes of the call.
ToastOutcome == "Unexpected"

\* parse_row_data. The loop stops at the first element that has no column in
\* tb_meta.cols (the index panics) or that is UnchangedToast.
parse_row_data(cols, tuple) ==
    LET bad == {i \in 1 .. Len(tuple) :
                   i > Len(cols) \/ (tuple[i] = "Toast" /\ ToastOutcome # "ok")}
        first == CHOOSE i \in bad : \A j \in bad : i <= j
        names == {ColOf(cols, i) : i \in 1 .. Len(tuple)}
    IN  IF bad = {}
        THEN [res |-> "ok",
              map |-> [c \in names |->
                         LET i == CHOOSE j \in 1 .. Len(tuple) :
                                     /\ ColOf(cols, j) = c
                                     /\ \A h \in 1 .. Len(tuple) :
                                            ColOf(cols, h) = c => h <= j
                         IN  [idx |-> i,
                              val |-> IF tuple[i] = "Text" THEN "value" ELSE "None"]]]
        ELSE [res |-> IF first > Len(cols) THEN "index" ELSE ToastOutcome,
              map |-> EmptyMap]

\* The before image decode_update builds when the event has no old and no key
\* tuple: the where_cols read from the after image (a column the after image
\* lacks makes the unwrap panic).
WhereImage(where_cols, after) ==
    IF where_cols \subseteq DOMAIN after
    THEN [res |-> "ok", map |-> [c \in where_cols |-> after[c]]]
    ELSE [res |-> "unwrap", map |-> EmptyMap]

\* A decoder that looks at the old tuple only.
BeforeTupleOldOnly(ev) == ev.old

\* The tuple the before image of an Update or Delete is parsed from.
BeforeTuple(ev) ==
    IF ev.old # NoTuple THEN ev.old ELSE ev.key

\* decode_delete: a Delete with neither old nor key tuple gets an empty
\* before image, whatever where_cols is.
DeleteWithoutImage(meta) == [res |-> "ok", map |-> EmptyMap]

\* decode_insert / decode_update / decode_delete up to push_row_to_buf:
\* [res, row]. res is "ok", or the error the ? operators pass up
\* ("MetadataError" from get_tb_meta_by_oid, "Unexpected"), or the panic met
\* on the way ("index", "unwrap").
DecodeRow(meta, ev) ==
    LET fail(r) == [res |-> r, row |-> NoRow]
        row(t, b, a) ==
            [res |-> "ok",
             row |-> [kind |-> "Dml", pos |-> NoPos, id |-> 0, rel |-> ev.rel,
                      row_type |-> t, before |-> b, after |-> a]]
        img(m) == [some |-> TRUE, map |-> m]
    IN  IF ~meta.known THEN fail("MetadataError")
        ELSE CASE ev.type = "Insert" ->
                    LET a == parse_row_data(meta.cols, ev.tuple)
                    IN  IF a.res # "ok" THEN fail(a.res)
                        ELSE row("Insert", NoImage, img(a.map))
               [] ev.type = "Update" ->
                    LET a == parse_row_data(meta.cols, ev.tuple)
                        b == IF BeforeTuple(ev) # NoTuple
                             THEN parse_row_data(meta.cols, BeforeTuple(ev))
                             ELSE WhereImage(meta.where_cols, a.map)
                    IN  IF a.res # "ok" THEN fail(a.res)
                        ELSE IF b.res # "ok" THEN fail(b.res)
                        ELSE row("Update", img(b.map), img(a.map))
               [] OTHER ->
                    LET b == IF BeforeTuple(ev) # NoTuple
                             THEN parse_row_data(meta.cols, BeforeTuple(ev))
                             ELSE DeleteWithoutImage(meta)
                    IN  IF b.res # "ok" THEN fail(b.res)
                        ELSE row("Delete", img(b.map), NoImage)

\* A decode_relation that files the metadata under the other rel_id.
RelationKeyOther(r) == IF r = 1 THEN 2 ELSE 1

\* decode_relation: update_tb_meta_by_oid(event.rel_id(), tb_meta).
RelationKey(r) == r

\* The PrimaryKeepAlive arm: a standby status update is sent when the
\* message asks for a reply.
ShouldReply(reply) == reply = 1

\* The LSN the standby status update reports as written, flushed and applied.
ReportedLsn(committed_position) == HardCodedLsn

\* A push_row_to_buf that does not wait for room.
SeenNotFullAlways(q) == TRUE

\* The wait loop of push_row_to_buf ends when is_full() is seen false.
SeenNotFull(q) == ~IsFull(q)

CdcOff ==
    [pc |-> "off", rels |-> [r \in RelIds |-> NoMeta], filtered |-> {},
     row |-> NoRow, err |-> "none", result |-> "running", lost |-> 0,
     commit_lsn |-> NoPos, updates |-> {}, stream_left |-> 0,
     last |-> [ev |-> EvBase, sent |-> FALSE]]

\* The extractors tried: the row types the filter drops, on a stream of
\* MaxMsgs messages.
CdcInits ==
    {[CdcOff EXCEPT !.pc = "recv", !.filtered = f, !.stream_left = MaxMsgs] :
        f \in {{}, {"Update"}}}

\* The extractor on a stream that does not end, with a filter that drops nothing.
CdcEndless == [CdcOff EXCEPT !.pc = "recv", !.stream_left = Endless]

\* extract() unwraps the result of extract_internal: an Err that a ? passed
\* up and a panic met inside both end extract() in a panic.
CdcFail(c, e) == [c EXCEPT !.pc = "failed", !.err = e, !.result = "panic"]

\* One step of the loop of extract_internal: stream.next() and the arm that
\* handles the message, up to the wait of push_row_to_buf.
CdcHandle(c, ev) ==
    CASE ev.type = "Relation" ->
            IF ~ev.oid_known THEN CdcFail(c, "unwrap")
            ELSE [c EXCEPT !.rels[RelationKey(ev.rel)] =
                              [known |-> TRUE, cols |-> ev.cols,
                               where_cols |-> ev.where_cols]]
      [] ev.type \in RowTypes ->
            LET d == DecodeRow(c.rels[ev.rel], ev)
            IN  IF d.res # "ok" THEN CdcFail(c, d.res)
                ELSE IF d.row.row_type \in c.filtered THEN c
                ELSE [c EXCEPT !.pc = "wait", !.row = d.row]
      [] ev.type = "Commit" -> [c EXCEPT !.commit_lsn = ev.lsn]
      [] ev.type = "KeepAlive" ->
            IF ShouldReply(ev.reply)
            THEN [c EXCEPT !.updates = @ \cup
                      {[lsn |-> ReportedLsn(syncer.committed_position),
                        committed |-> syncer.committed_position]}]
            ELSE c
      [] ev.type = "StreamEnd" -> CdcFail(c, "stream")
      [] OTHER -> c

CRecv(evs) ==
    /\ Running
    /\ cdc.pc = "recv"
    /\ cdc.stream_left > 0
    /\ \E ev \in evs :
         /\ ev.type = "Commit" => ev.lsn = cdc.commit_lsn + 1
         /\ LET c == CdcHandle(cdc, ev)
            IN  cdc' = [c EXCEPT !.stream_left = IF @ = Endless THEN @ ELSE @ - 1,
                                 !.last =
                                    [ev |-> ev,
                                     sent |-> ev.type = "KeepAlive"
                                                /\ ShouldReply(ev.reply)]]
    /\ UNCHANGED <<buffer, shut_down, cfg, pipeVars, stopVars, prodVars, lk, bat, sinkVars>>

\* push_row_to_buf: the wait loop sees the queue not full.
CWait ==
    /\ Running
    /\ cdc.pc = "wait"
    /\ SeenNotFull(buffer)
    /\ cdc' = [cdc EXCEPT !.pc = "push"]
    /\ UNCHANGED <<buffer, shut_down, cfg, pipeVars, stopVars, prodVars, lk, bat, sinkVars>>

\* push_row_to_buf: buffer.push, whose result is discarded; a push on a full
\* queue returns the row in its error and the row is gone.
CPush ==
    /\ Running
    /\ cdc.pc = "push"
    /\ Len(pushed) < MaxItems
    /\ IF Len(buffer) < QueueCap
       THEN LET item == [cdc.row EXCEPT !.id = Len(pushed) + 1]
            IN  /\ buffer' = Append(buffer, item)
                /\ pushed' = Append(pushed, item)
                /\ cdc' = [cdc EXCEPT !.pc = "recv", !.row = NoRow]
       ELSE /\ cdc' = [cdc EXCEPT !.pc = "recv", !.row = NoRow, !.lost = 1]
            /\ UNCHANGED <<buffer, pushed>>
    /\ UNCHANGED <<shut_down, cfg, pipeVars, stopVars, prodDone, ext, lk, bat, sinkVars>>

\* ---------------------------------------------------------- call_batch_fn
MaxData == 6         \* largest data.len() a sinker is handed
MaxBatch == 3        \* largest batch_size tried

\* A loop that always passes batch_size rows to the batch function.
WindowLenFixed(batch_size, remaining) == batch_size

\* The head of the loop: batch_size, cut to the rows that are left.
WindowLen(batch_size, remaining) ==
    IF remaining < batch_size THEN remaining ELSE batch_size

BatOff == [pc |-> "off", all_count |-> 0, batch_size |-> 0, sinked_count |-> 0,
           calls |-> <<>>]

BatInits ==
    {[BatOff EXCEPT !.pc = "loop", !.all_count = n, !.batch_size = b] :
        n \in 0 .. MaxData, b \in 0 .. MaxBatch}

\* One iteration of the loop of call_batch_fn: it breaks on an empty window,
\* else calls the batch function on (sinked_count, batch_size) and unwraps
\* its result.
BatchIter ==
    /\ bat.pc = "loop"
    /\ LET len == WindowLen(bat.batch_size, bat.all_count - bat.sinked_count)
       IN  IF len = 0
           THEN bat' = [bat EXCEPT !.pc = "done"]
           ELSE \E ok \in BOOLEAN :
                  bat' = [bat EXCEPT
                            !.calls = Append(@, [start |-> bat.sinked_count, len |-> len]),
                            !.sinked_count = IF ok THEN @ + len ELSE @,
                            !.pc = IF ok THEN "loop" ELSE "panicked"]
    /\ UNCHANGED <<buffer, shut_down, cfg, pipeVars, stopVars, prodVars, lk, cdc, sinkVars>>

\* ------------------------------------------------------- StarRocks sinker
\* One call of StarRocksSinker::sink_dml. A row is its row_type; an Insert
\* has an after image only, a Delete a before image only, an Update both.
\* Indices into data are 0-based as in the code (row i is data[i + 1] here).
MaxSinkRows == 3     \* largest batch a sinker's sink_dml is handed

RowSeqs == UNION {[1 .. n -> RowTypes] : n \in 0 .. MaxSinkRows}

HasImage(row_type, image) ==
    IF image = "before" THEN row_type \in {"Update", "Delete"}
    ELSE row_type \in {"Insert", "Update"}

\* What the stream load endpoint may answer; status 0 stands for a request
\* that got no response.
Responses == [status : {0, 200, 500}, text : {"Success", "Fail", "notjson"}]

\* A check that looks at the HTTP status only.
ResponseOkStatusOnly(resp) == resp.status = 200

\* check_response returns Ok: status 200 and a JSON body whose Status is
\* "Success". Everything else ends send_data in a panic: no response and a
\* body that is not JSON at an unwrap, the two bail!s at the unwrap of the
\* result of check_response.
ResponseOk(resp) == resp.status = 200 /\ resp.text = "Success"

\* send_data: the image it reads from every row of the window, chosen by the
\* first row of the window.
WindowImage(d, start) == IF d[start + 1] = "Delete" THEN "before" ELSE "after"

\* send_data: the op it passes to build_request, chosen by the first row.
WindowOp(d, start) == IF d[start + 1] = "Delete" THEN "delete" ELSE ""

\* The rows send_data iterates: skip(start_index).take(batch_size).
WindowRows(d, start, len) ==
    {k \in 1 .. Len(d) : k > start /\ k <= start + len}

\* sink_dml: whether the batch goes to call_batch_fn / batch_sink.
TakesBatchPath(d, batch) == batch /\ d[1] \in {"Insert", "Delete"}

SrOff == [pc |-> "off", data |-> <<>>, batch |-> FALSE, batch_size |-> 0, i |-> 0,
          reqs |-> <<>>, monitor |-> 0]

SrInits ==
    {[SrOff EXCEPT !.pc = "start", !.data = d, !.batch = b, !.batch_size = n] :
        d \in RowSeqs, b \in BOOLEAN, n \in 0 .. MaxBatch}

\* sink_dml up to the choice of the path.
SrStart ==
    /\ sr.pc = "start"
    /\ sr' = [sr EXCEPT !.pc = IF sr.data = <<>> THEN "done"
                               ELSE IF TakesBatchPath(sr.data, sr.batch) THEN "batch"
                               ELSE "serial"]
    /\ UNCHANGED <<buffer, shut_down, cfg, pipeVars, stopVars, prodVars, lk, cdc, bat, kf>>

\* One send_data(data, start, len) on path `path`, and what the caller does
\* with its result: after an Ok the caller adds `counted` to the monitor and
\* goes on at row `next`.
SrSend(path, start, len, counted, next) ==
    LET image == WindowImage(sr.data, start)
        rows == WindowRows(sr.data, start, len)
    IN  IF \E k \in rows : ~HasImage(sr.data[k], image)
        THEN sr' = [sr EXCEPT !.pc = "panicked"]
        ELSE \E resp \in Responses :
               LET req == [start |-> start, len |-> len, path |-> path,
                           op |-> WindowOp(sr.data, start), image |-> image,
                           rows |-> rows, resp |-> resp, ok |-> ResponseOk(resp)]
               IN  sr' = [sr EXCEPT !.reqs = Append(@, req),
                                    !.pc = IF req.ok THEN @ ELSE "panicked",
                                    !.i = IF req.ok THEN next ELSE @,
                                    !.monitor = IF req.ok THEN @ + counted ELSE @]

\* serial_sink: one request per row, the monitor updated after the last one.
SrSerial ==
    /\ sr.pc = "serial"
    /\ IF sr.i = Len(sr.data)
       THEN sr' = [sr EXCEPT !.pc = "done", !.monitor = @ + Len(sr.data)]
       ELSE SrSend("serial", sr.i, 1, 0, sr.i + 1)
    /\ UNCHANGED <<buffer, shut_down, cfg, pipeVars, stopVars, prodVars, lk, cdc, bat, kf>>

\* call_batch_fn over batch_sink: one request per window, the monitor
\* updated after each.
SrBatch ==
    /\ sr.pc = "batch"
    /\ LET len == WindowLen(sr.batch_size, Len(sr.data) - sr.i)
       IN  IF len = 0
           THEN sr' = [sr EXCEPT !.pc = "done"]
           ELSE SrSend("batch", sr.i, len, len, sr.i + len)
    /\ UNCHANGED <<buffer, shut_down, cfg, pipeVars, stopVars, prodVars, lk, cdc, bat, kf>>

\* ----------------------------------------------------------- Kafka sinker
\* One call of RdkafkaSinker::sink_dml, made for the batch of a Dml tick of
\* the pipeline driver. The first loop of send_avro converts each row and
\* stores an async block; an async block runs nothing until it is awaited,
\* so the producer's send of a row is issued when the second loop awaits
\* that row's block.
KfIdle == [pc |-> "idle", ids |-> <<>>, built |-> 0, sent |-> 0, awaited |-> 0,
           results |-> <<>>, errors |-> 0, mon_batch |-> 0, cause |-> "none"]
KfOff == [KfIdle EXCEPT !.pc = "off"]

\* The tick at pPc = "sink" calls sink_dml with a non-empty batch.
TickCallsDml ==
    /\ get_sink_method(data) = "Dml"
    /\ Len(Fetch("Dml", data).data) > 0

\* The rows of that call, by id.
TickRows == IdSeq(Fetch("Dml", data).data)

\* A second loop that takes every delivery result for a success.
DeliveryFailedNever(ok) == FALSE

\* The second loop of send_avro: `if let Err(err) = future.await`.
DeliveryFailed(ok) == ~ok

\* parallelizer.sink_dml hands the batch to the sinker; send_avro starts.
KBegin ==
    /\ pPc = "sink"
    /\ kf.pc \in {"idle", "ok", "err"}
    /\ TickCallsDml
    /\ kf.ids # TickRows
    /\ kf' = [KfIdle EXCEPT !.pc = "build", !.ids = TickRows]
    /\ UNCHANGED <<buffer, shut_down, cfg, pipeVars, stopVars, prodVars, lk, cdc, bat, sr>>

\* The first loop of send_avro, one row: the avro conversions (an error of
\* which is returned with ?) and the push of the row's async block.
KBuild ==
    /\ kf.pc = "build"
    /\ IF kf.built = Len(kf.ids)
       THEN kf' = [kf EXCEPT !.pc = "await"]
       ELSE \E converted \in BOOLEAN :
              kf' = IF converted
                    THEN [kf EXCEPT !.built = @ + 1]
                    ELSE [kf EXCEPT !.pc = "err", !.errors = @ + 1, !.cause = "convert"]
    /\ UNCHANGED <<buffer, shut_down, cfg, pipeVars, stopVars, prodVars, lk, cdc, bat, sr>>

\* The second loop of send_avro, one future: awaiting it issues the send and
\* yields the delivery result; the first Err bails out. After the last
\* future the monitor is updated.
KAwait ==
    /\ kf.pc = "await"
    /\ IF kf.awaited = Len(kf.ids)
       THEN kf' = [kf EXCEPT !.pc = "ok", !.mon_batch = Len(kf.ids)]
       ELSE \E ok \in BOOLEAN :
              kf' = IF DeliveryFailed(ok)
                    THEN [kf EXCEPT !.sent = @ + 1, !.results = Append(@, ok),
                                    !.pc = "err", !.errors = @ + 1,
                                    !.cause = "delivery"]
                    ELSE [kf EXCEPT !.sent = @ + 1, !.results = Append(@, ok),
                                    !.awaited = @ + 1]
    /\ UNCHANGED <<buffer, shut_down, cfg, pipeVars, stopVars, prodVars, lk, cdc, bat, sr>>

\* What the parallelizer's sink_dml returns for the sinker's result.
KafkaOutcomes ==
    IF kf.pc = "ok" THEN {[kind |-> "ok", at |-> 0]}
    ELSE {[kind |-> "parallelizer", at |-> 0]}

\* The tick body with the Kafka sinker behind the parallelizer: a Dml tick
\* goes on once send_avro has returned for its rows.
PSinkK ==
    IF pPc = "sink" /\ TickCallsDml
    THEN /\ kf.pc \in {"ok", "err"}
         /\ kf.ids = TickRows
         /\ PSinkWith(KafkaOutcomes)
    ELSE PSinkWith(SinkOutcomes)

\* ---------------------------------------------------- source and target
\* A source that applies a group of inserts, then of updates, then of
\* deletes, on the keys of one table; each change reaches the queue as a Dml
\* item in the order the source applied it. The target applies, in order,
\* the rows of every sink_dml call that returned Ok.
MaxKeys == 1         \* rows the source inserts, updates and deletes

Keys == 1 .. MaxKeys

Script ==
    [n \in 1 .. 3 * MaxKeys |->
        [row_type |-> IF n <= MaxKeys THEN "Insert"
                      ELSE IF n <= 2 * MaxKeys THEN "Update" ELSE "Delete",
         key |-> ((n - 1) % MaxKeys) + 1]]

EmptyTable == [k \in Keys |-> "absent"]

ApplyChange(t, op) ==
    CASE op.row_type = "Insert" -> [t EXCEPT ![op.key] = "v1"]
      [] op.row_type = "Update" ->
            [t EXCEPT ![op.key] = IF @ = "absent" THEN @ ELSE "v2"]
      [] OTHER -> [t EXCEPT ![op.key] = "absent"]

RECURSIVE ApplyAll(_, _)
ApplyAll(ops, t) ==
    IF ops = <<>> THEN t ELSE ApplyAll(Tail(ops), ApplyChange(t, Head(ops)))

\* The source applies its next change and the extractor pushes it (waiting
\* while the queue is full).
SrcChange ==
    /\ Running
    /\ Len(pushed) < Len(Script)
    /\ ~IsFull(buffer)
    /\ LET op == Script[Len(pushed) + 1]
           item == [kind |-> "Dml", pos |-> LastPos + 1, id |-> Len(pushed) + 1,
                    row_type |-> op.row_type, key |-> op.key]
       IN  /\ buffer' = Append(buffer, item)
           /\ pushed' = Append(pushed, item)
    /\ UNCHANGED <<shut_down, cfg, compVars, pipeVars, stopVars, prodDone, ext>>

\* The sinkers are not running.
SinksOff ==
    /\ sr = SrOff
    /\ kf = KfOff

\* ------------------------------------------------------------ specification
Configs == [source : {"rdb", "redis"},
            batch_sink_interval_secs : 0 .. MaxInterval,
            checkpoint_interval_secs : 0 .. MaxInterval,
            lua_processor : BOOLEAN]

InitPipeline ==
    /\ buffer = <<>>
    /\ shut_down = FALSE
    /\ pPc = "check"
    /\ data = <<>>
    /\ sinkElapsed = 0
    /\ ckptElapsed = 0
    /\ last_received_position = NoPos
    /\ last_commit_position = NoPos
    /\ syncer = [received_position |-> NoPos, committed_position |-> NoPos]
    /\ fault = "none"
    /\ sinkerMeta = [s \in Sinkers |-> {}]
    /\ closeCount = [s \in Sinkers |-> 0]
    /\ parClosed = FALSE
    /\ sPc = "idle"
    /\ closeIdx = 1
    /\ pushed = <<>>
    /\ drained = <<>>
    /\ sunk = <<>>
    /\ prodDone = FALSE

\* No snapshot extractor: the queue is fed by the generic producer.
ExtOff ==
    [pc |-> "off", table |-> <<>>, order_col |-> FALSE, slice_size |-> 0,
     start_value |-> NoPos, rows |-> <<>>, slice_count |-> 0, queries |-> 0,
     bound |-> NoPos]

\* The mutexes are free and neither the CDC extractor nor a batch loop runs.
CompOff ==
    /\ lk = LkInit
    /\ cdc = CdcOff
    /\ bat = BatOff
    /\ SinksOff

Init ==
    /\ cfg \in Configs
    /\ ext = ExtOff
    /\ InitPipeline
    /\ CompOff

Next == Pipeline \/ Stop \/ Push \/ ExternalShutdown \/ SecondPasses

Spec == Init /\ [][Next]_vars


\* ---------------------------------------------------- snapshot extractor
\* The table is the sequence of its rows' order_col values in ascending order,
\* as ORDER BY returns them (MySQL sorts NULL first). Only the order of the
\* values matters to the scan, so they are ranks: a value above 1 occurs only
\* with the value below it.
SqlNull == 0
ColNone == 0

Tables ==
    {t \in UNION {[1 .. n -> 0 .. MaxRows] : n \in 0 .. MaxRows} :
        /\ \A k \in 1 .. Len(t) - 1 : t[k] <= t[k + 1]
        /\ \A k \in 1 .. Len(t) : t[k] > 1 => \E j \in 1 .. Len(t) : t[j] = t[k] - 1}

\* Bounds that keep the history of a scan that never ends (slice_size 0, a
\* NULL order value) finite: queries are counted up to QueryCap and rows are
\* pushed up to PushCap; a scan that ends stays below both.
QueryCap == MaxRows + 2
PushCap == MaxRows + 1

Take(q, n) == SubSeq(q, 1, IF n < Len(q) THEN n ELSE Len(q))

\* A slice query that re-reads the row of the bound value.
SliceQueryInclusive(table, start, n) ==
    LET idx == [k \in 1 .. Len(table) |-> k]
        Sel(k) == start = ColNone \/ (table[k] # SqlNull /\ table[k] >= start)
    IN  Take(SelectSeq(idx, Sel), n)

\* The rows (by index) a slice query returns: sql1 when start_value is
\* ColValue::None, else sql2 bound to start_value; both LIMIT slice_size.
SliceQuery(table, start, n) ==
    LET idx == [k \in 1 .. Len(table) |-> k]
        Sel(k) == start = ColNone \/ (table[k] # SqlNull /\ table[k] > start)
    IN  Take(SelectSeq(idx, Sel), n)

\* get_col_value on the order column: NULL reads as ColValue::None.
get_col_value(v) == IF v = SqlNull THEN ColNone ELSE v

\* An extractor that does not wait for the queue to drain.
WaitOverAtOnce(q) == TRUE

\* The wait of extract_internal ends when the queue is seen empty.
WaitOver(q) == IsEmpty(q)

\* push_row_to_buffer: the RowData built from row k of the table.
RowItem(k) ==
    [kind |-> "Dml", pos |-> NoPos, id |-> Len(pushed) + 1, row |-> k,
     row_type |-> "Insert", before |-> FALSE, after |-> TRUE]

EStart ==
    /\ Running
    /\ ext.pc = "start"
    /\ ext' = IF ext.order_col
              THEN [ext EXCEPT !.pc = "query", !.start_value = ColNone]
              ELSE [ext EXCEPT !.pc = "all", !.queries = 1,
                               !.rows = [k \in 1 .. Len(ext.table) |-> k]]
    /\ UNCHANGED <<buffer, shut_down, cfg, compVars, pipeVars, stopVars, pushed, prodDone>>

\* extract_by_slices: the head of the loop issues the next slice query
\* (bound: the value it binds, ColNone for the query without WHERE).
EQuery ==
    /\ Running
    /\ ext.pc = "query"
    /\ ext' = [ext EXCEPT !.pc = "fetch",
                          !.rows = SliceQuery(ext.table, ext.start_value, ext.slice_size),
                          !.slice_count = 0,
                          !.bound = ext.start_value,
                          !.queries = IF @ < QueryCap THEN @ + 1 ELSE @]
    /\ UNCHANGED <<buffer, shut_down, cfg, compVars, pipeVars, stopVars, pushed, prodDone>>

\* extract_by_slices: the inner loop pushes the next row of the slice (waiting
\* while the queue is full) or, at the end of the slice, leaves or repeats.
EFetch ==
    /\ Running
    /\ ext.pc = "fetch"
    /\ IF ext.rows # <<>>
       THEN /\ ~IsFull(buffer)
            /\ Len(pushed) < PushCap
            /\ buffer' = Append(buffer, RowItem(Head(ext.rows)))
            /\ pushed' = Append(pushed, RowItem(Head(ext.rows)))
            /\ ext' = [ext EXCEPT !.rows = Tail(@),
                                  !.start_value = get_col_value(ext.table[Head(ext.rows)]),
                                  !.slice_count = @ + 1]
       ELSE /\ ext' = [ext EXCEPT !.pc = IF ext.slice_count < ext.slice_size
                                         THEN "wait" ELSE "query"]
            /\ UNCHANGED <<buffer, pushed>>
    /\ UNCHANGED <<shut_down, cfg, compVars, pipeVars, stopVars, prodDone>>

\* extract_all: one unsliced query, every row pushed.
EAll ==
    /\ Running
    /\ ext.pc = "all"
    /\ IF ext.rows # <<>>
       THEN /\ ~IsFull(buffer)
            /\ buffer' = Append(buffer, RowItem(Head(ext.rows)))
            /\ pushed' = Append(pushed, RowItem(Head(ext.rows)))
            /\ ext' = [ext EXCEPT !.rows = Tail(@)]
       ELSE /\ ext' = [ext EXCEPT !.pc = "wait"]
            /\ UNCHANGED <<buffer, pushed>>
    /\ UNCHANGED <<shut_down, cfg, compVars, pipeVars, stopVars, prodDone>>

\* extract_internal: wait until all data is transferred.
EWait ==
    /\ Running
    /\ ext.pc = "wait"
    /\ WaitOver(buffer)
    /\ ext' = [ext EXCEPT !.pc = "flag"]
    /\ UNCHANGED <<buffer, shut_down, cfg, compVars, pipeVars, stopVars, pushed, prodDone>>

\* extract_internal: set the shutdown flag and return.
ESetFlag ==
    /\ Running
    /\ ext.pc = "flag"
    /\ shut_down' = TRUE
    /\ prodDone' = TRUE
    /\ ext' = [ext EXCEPT !.pc = "done"]
    /\ UNCHANGED <<buffer, cfg, compVars, pipeVars, stopVars, pushed>>

Extractor == EStart \/ EQuery \/ EFetch \/ EAll \/ EWait \/ ESetFlag

SnapConfigs == [source : {"snapshot"},
                batch_sink_interval_secs : 0 .. MaxInterval,
                checkpoint_interval_secs : 0 .. MaxInterval,
                lua_processor : BOOLEAN]

\* A table with an order column and one without (its rows carry no order value).
SnapExts ==
    {[pc |-> "start", table |-> t, order_col |-> oc, slice_size |-> n,
      start_value |-> ColNone, rows |-> <<>>, slice_count |-> 0, queries |-> 0,
      bound |-> ColNone] :
        t \in Tables, oc \in BOOLEAN, n \in 0 .. MaxSlice}

SnapInit ==
    /\ cfg \in SnapConfigs
    /\ ext \in {e \in SnapExts :
                  e.order_col \/ \A k \in 1 .. Len(e.table) : e.table[k] = SqlNull}
    /\ InitPipeline
    /\ CompOff

\* The snapshot extractor and the pipeline driver on one queue.
NextSnap == Pipeline \/ SecondPasses \/ Extractor

SnapSpec == SnapInit /\ [][NextSnap]_vars

\* The snapshot extractor and the driver under fair scheduling of both tasks.
SnapLiveSpec ==
    /\ SnapInit
    /\ [][NextSnap]_vars
    /\ WF_vars(Extractor)
    /\ WF_vars(Pipeline)
    /\ WF_vars(SecondPasses)

\* The same system with a producer that may finish, under fair scheduling:
\* the runtime keeps polling the driver task, and time keeps passing.
NextLive == Next \/ ProducerFinish

LiveSpec ==
    /\ Init
    /\ [][NextLive]_vars
    /\ WF_vars(Pipeline)
    /\ WF_vars(SecondPasses)

\* The sinker mutexes under the tasks that take them; the queue is not used.
StillCfg ==
    [source |-> "rdb", batch_sink_interval_secs |-> 0,
     checkpoint_interval_secs |-> 0, lua_processor |-> FALSE]

LockInit ==
    /\ cfg = StillCfg
    /\ ext = ExtOff
    /\ InitPipeline
    /\ lk = LkInit
    /\ cdc = CdcOff
    /\ bat = BatOff
    /\ SinksOff

NextLock == LTick \/ BranchSteps \/ LJoin \/ LStop \/ DLock \/ DUnlock

LockSpec == LockInit /\ [][NextLock]_vars

\* The CDC extractor and the pipeline driver on one queue.
CdcConfigs == [source : {"pg"},
               batch_sink_interval_secs : 0 .. MaxInterval,
               checkpoint_interval_secs : 0 .. MaxInterval,
               lua_processor : {FALSE}]

CdcInit ==
    /\ cfg \in CdcConfigs
    /\ ext = ExtOff
    /\ InitPipeline
    /\ lk = LkInit
    /\ cdc = CdcEndless
    /\ bat = BatOff
    /\ SinksOff

CdcRecv == CRecv(PipeEvents)

NextCdc == Pipeline \/ SecondPasses \/ ExternalShutdown \/ CdcRecv \/ CWait \/ CPush

CdcSpec == CdcInit /\ [][NextCdc]_vars

\* The CDC extractor alone, on every message of Events; nothing drains the
\* queue.
DecodeInit ==
    /\ cfg = StillCfg
    /\ ext = ExtOff
    /\ InitPipeline
    /\ lk = LkInit
    /\ cdc \in CdcInits
    /\ bat = BatOff
    /\ SinksOff

DecodeRecv == CRecv(Events)

NextDecode == DecodeRecv \/ CWait \/ CPush

DecodeSpec == DecodeInit /\ [][NextDecode]_vars

\* call_batch_fn on every data length and batch_size.
BatchInit ==
    /\ cfg = StillCfg
    /\ ext = ExtOff
    /\ InitPipeline
    /\ lk = LkInit
    /\ cdc = CdcOff
    /\ bat \in BatInits
    /\ SinksOff

NextBatch == BatchIter

BatchSpec == BatchInit /\ [][NextBatch]_vars

\* One StarRocksSinker::sink_dml call on every batch of RowSeqs.
StarInit ==
    /\ cfg = StillCfg
    /\ ext = ExtOff
    /\ InitPipeline
    /\ lk = LkInit
    /\ cdc = CdcOff
    /\ bat = BatOff
    /\ sr \in SrInits
    /\ kf = KfOff

NextStar == SrStart \/ SrSerial \/ SrBatch

StarSpec == StarInit /\ [][NextStar]_vars

\* The pipeline driver with the Kafka sinker behind its parallelizer.
KafkaConfigs == [source : {"rdb"},
                 batch_sink_interval_secs : 0 .. MaxInterval,
                 checkpoint_interval_secs : {0},
                 lua_processor : {FALSE}]

KafkaInit ==
    /\ cfg \in KafkaConfigs
    /\ ext = ExtOff
    /\ InitPipeline
    /\ lk = LkInit
    /\ cdc = CdcOff
    /\ bat = BatOff
    /\ sr = SrOff
    /\ kf = KfIdle

NextKafka ==
    \/ PCheck \/ PDecide \/ PDrain \/ PSinkK \/ SecondPasses
    \/ Push \/ ExternalShutdown
    \/ KBegin \/ KBuild \/ KAwait

KafkaSpec == KafkaInit /\ [][NextKafka]_vars

\* A running CDC task between a source that changes and its target, under
\* fair scheduling of the driver and of time.
FlowConfigs == [source : {"rdb"},
                batch_sink_interval_secs : 0 .. MaxInterval,
                checkpoint_interval_secs : 0 .. MaxInterval,
                lua_processor : {FALSE}]

FlowInit ==
    /\ cfg \in FlowConfigs
    /\ ext = ExtOff
    /\ InitPipeline
    /\ CompOff

NextFlow == Pipeline \/ SecondPasses \/ SrcChange

FlowSpec ==
    /\ FlowInit
    /\ [][NextFlow]_vars
    /\ WF_vars(Pipeline)
    /\ WF_vars(SecondPasses)

\* Either extractor with the pipeline driver on one queue: the snapshot
\* extractor on every table of SnapExts, or the CDC extractor on every
\* stream of MaxMsgs messages. Both intervals are 0: every tick drains.
RowConfigs == [source : {"snapshot", "pg"},
               batch_sink_interval_secs : {0},
               checkpoint_interval_secs : {0},
               lua_processor : {FALSE}]

RowsInit ==
    /\ cfg \in RowConfigs
    /\ InitPipeline
    /\ lk = LkInit
    /\ bat = BatOff
    /\ SinksOff
    /\ IF cfg.source = "snapshot"
       THEN /\ ext \in {e \in SnapExts :
                          e.order_col \/ \A k \in 1 .. Len(e.table) : e.table[k] = SqlNull}
            /\ cdc = CdcOff
       ELSE /\ ext = ExtOff
            /\ cdc \in CdcInits

NextRows == Pipeline \/ Extractor \/ DecodeRecv \/ CWait \/ CPush

RowsSpec == RowsInit /\ [][NextRows]_vars

\* ------------------------------------------------------------- properties
SunkIdsOf(method) ==
    UNION {Ids(sunk[c].ids) : c \in {x \in 1 .. Len(sunk) : sunk[x].method = method}}

\* The ids of the DDL items of the parallelizer sink_ddl calls that returned Ok.
SunkDdlOk ==
    UNION {{sunk[c].ids[k] : k \in 1 .. Len(sunk[c].ids)} :
             c \in {x \in 1 .. Len(sunk) : sunk[x].method = "Ddl" /\ sunk[x].ok}}

Handed(i) ==
    \E c \in 1 .. Len(sunk) :
        /\ sunk[c].method = i.kind
        /\ \E k \in 1 .. Len(sunk[c].ids) : sunk[c].ids[k] = i.id

\* C1: a tick whose transformer, parallelizer sink_* call or refresh_meta fails
\* leaves syncer.received_position and syncer.committed_position (and the
\* driver's last_received / last_commit) as they were before the tick.
C1_FailedTickKeepsPositions ==
    [][(pPc # "panicked" /\ pPc' = "panicked")
         => /\ syncer' = syncer
            /\ last_received_position' = last_received_position
            /\ last_commit_position' = last_commit_position]_vars

\* A tick failed in refresh_meta after draining an item beyond received_position.
C1_Witness ==
    /\ pPc = "panicked"
    /\ fault = "refresh_meta"
    /\ drained # <<>>
    /\ drained[Len(drained)].pos > syncer.received_position

\* C2: between ticks, every Dml and Ddl item drained so far whose position
\* received_position has reached was handed to the parallelizer by sink_dml
\* resp. sink_ddl; no item of a mixed batch is dropped unsunk.
C2_EveryDrainedItemSunk ==
    pPc \in {"check", "returned"} =>
        \A k \in 1 .. Len(drained) :
            (drained[k].kind \in {"Dml", "Ddl"}
               /\ drained[k].pos <= syncer.received_position)
            => Handed(drained[k])

\* C3: committed_position never exceeds received_position.
C3_CommittedLeReceived ==
    syncer.committed_position <= syncer.received_position

\* A checkpoint was recorded and received_position is ahead of it.
C3_Witness ==
    /\ syncer.committed_position # NoPos
    /\ syncer.received_position > syncer.committed_position

\* C4: no step of start() lowers syncer.received_position.
C4_ReceivedMonotone ==
    [][syncer'.received_position >= syncer.received_position]_vars

\* received_position advanced in two different ticks.
C4_Witness ==
    /\ Len(sunk) >= 2
    /\ syncer.received_position >= 2
    /\ pPc = "check"

\* C5: start() returns only from a loop check that finds the shutdown flag set
\* and the queue empty.
C5_ReturnOnlyWhenShutDownAndEmpty ==
    [][(pPc # "returned" /\ pPc' = "returned")
         => (pPc = "check" /\ shut_down /\ IsEmpty(buffer))]_vars

\* start() returned after items went through the queue.
C5_Witness ==
    /\ pPc = "returned"
    /\ Len(pushed) >= 2

\* C9: refresh_meta reaches a sinker only with DDL data that a parallelizer
\* sink_ddl has sunk, and whenever start() is still running (so before any
\* later sink_dml) every sinker has refreshed from every DDL item sunk so far.
C9_RefreshOnEverySinker ==
    /\ \A s \in Sinkers : sinkerMeta[s] \subseteq SunkDdlOk
    /\ pPc # "panicked" => \A s \in Sinkers : sinkerMeta[s] = SunkDdlOk

\* A sink_dml was issued in a tick after a DDL tick.
C9_Witness ==
    \E a, b \in 1 .. Len(sunk) :
        /\ a < b
        /\ sunk[a].method = "Ddl"
        /\ sunk[b].method = "Dml"
        /\ \A s \in Sinkers : sinkerMeta[s] # {}

\* C10: close is called at most once on a sinker; parallelizer.close is called
\* only after close was called exactly once on every sinker; a stop() that ran
\* to its end has done both.
C10_CloseOnceThenParallelizer ==
    /\ \A s \in Sinkers : closeCount[s] <= 1
    /\ parClosed => \A s \in Sinkers : closeCount[s] = 1
    /\ sPc = "done" => parClosed

\* stop() ran to its end after start() returned.
C10_Witness ==
    /\ sPc = "done"
    /\ shut_down
    /\ pPc = "returned"


\* C6: start() returns only with every item pushed so far drained and its tick
\* finished; and once the shutdown flag is set and the producer has finished,
\* start() eventually returns (or a sink failure has made it panic), whatever
\* batch_sink_interval_secs is.
C6_ShutdownDrainsAndReturns ==
    /\ [][(pPc # "returned" /\ pPc' = "returned")
            => (Len(drained) = Len(pushed) /\ data = <<>> /\ IsEmpty(buffer))]_vars
    /\ (shut_down /\ prodDone) ~> (pPc \in {"returned", "panicked"})

\* The flag was set with items still to be processed and a positive sink
\* interval, and start() has returned.
C6_Witness ==
    /\ pPc = "returned"
    /\ prodDone
    /\ cfg.batch_sink_interval_secs > 0
    /\ Len(sunk) >= 1
    /\ Len(drained) = MaxItems


RECURSIVE ConcatIds(_)
ConcatIds(log) == IF log = <<>> THEN <<>> ELSE Head(log).ids \o ConcatIds(Tail(log))

\* C7: the snapshot extractor sets the shutdown flag only once it has pushed
\* every row it extracted and has seen the queue empty; and when start() has
\* returned, the queue is empty and the rows handed to the sink calls are the
\* rows pushed, each once, in push order.
C7_SnapshotFullyDelivered ==
    /\ shut_down => (ext.pc = "done" /\ ext.rows = <<>> /\ IsEmpty(buffer))
    /\ pPc = "returned" =>
          /\ IsEmpty(buffer)
          /\ \A c \in 1 .. Len(sunk) : sunk[c].ok /\ sunk[c].method = "Dml"
          /\ ConcatIds(sunk) = IdSeq(pushed)

\* start() returned after the whole table went through in several ticks.
C7_Witness ==
    /\ pPc = "returned"
    /\ Len(pushed) = MaxRows
    /\ Len(ext.table) = MaxRows
    /\ Len(sunk) >= 2

UniqueNonNull(t) ==
    /\ \A k \in 1 .. Len(t) : t[k] # SqlNull
    /\ \A j, k \in 1 .. Len(t) : j # k => t[j] # t[k]

CeilDiv(a, b) == (a + b - 1) \div b

C11_OneTaskPerSinker ==
    \A s \in Sinkers :
        /\ Cardinality(lk.inside[s]) <= 1
        /\ \A t \in lk.inside[s] : lk.holder[s] = t

\* Two branches of one sink_ddl call are inside different sinkers at once.
C11_Witness ==
    /\ lk.op = "sink_ddl"
    /\ \E a, b \in Branches :
         /\ a # b
         /\ lk.br[a].pc = "inside" /\ lk.br[b].pc = "inside"
         /\ lk.br[a].sinker # lk.br[b].sinker
         /\ lk.inside[lk.br[a].sinker] = {a}
         /\ lk.inside[lk.br[b].sinker] = {b}

\* C12: with the CDC extractor as the one producer and the driver as the one
\* consumer, the queue never holds more than its capacity, the push that
\* follows the wait loop finds room, and no row is lost.
C12_QueueBoundedNoLoss ==
    /\ Len(buffer) <= QueueCap
    /\ cdc.pc = "push" => ~IsFull(buffer)
    /\ cdc.lost = 0

\* The extractor waits with a decoded row on a full queue, after the driver
\* had already drained once.
C12_Witness ==
    /\ cdc.pc = "wait"
    /\ IsFull(buffer)
    /\ Len(drained) >= 1
    /\ Len(pushed) = Len(drained) + QueueCap

IsPrefix(a, b) ==
    /\ Len(a) <= Len(b)
    /\ \A k \in 1 .. Len(a) : a[k] = b[k]

\* C13: the rows handed to the parallelizer's sink_dml, tick after tick, are
\* a prefix of the rows the CDC extractor pushed, in push order, and are all
\* of them once the queue is empty between two ticks.
C13_HandOffKeepsPushOrder ==
    /\ \A c \in 1 .. Len(sunk) : sunk[c].method = "Dml"
    /\ IsPrefix(ConcatIds(sunk), IdSeq(pushed))
    /\ (pPc \in {"check", "returned"} /\ IsEmpty(buffer))
          => ConcatIds(sunk) = IdSeq(pushed)

\* MaxItems rows went through in several ticks, one of them with two rows.
C13_Witness ==
    /\ pPc = "check"
    /\ IsEmpty(buffer)
    /\ Len(pushed) = MaxItems
    /\ Len(sunk) >= 2
    /\ \E c \in 1 .. Len(sunk) : Len(sunk[c].ids) >= 2


\* The extractor has handled a message; cdc.last.ev is that message.
Handled == cdc.stream_left # MaxMsgs /\ cdc.pc # "off"

\* C14: a standby status update is sent exactly for a PrimaryKeepAlive whose
\* reply flag is 1, and the LSN it reports is the syncer's committed_position
\* at that moment.
C14_ReplyReportsCommitted ==
    /\ (Handled /\ cdc.last.ev.type = "KeepAlive")
          => (cdc.last.sent <=> cdc.last.ev.reply = 1)
    /\ \A u \in cdc.updates : u.lsn = u.committed

\* C15: once the extractor has taken a source Commit with LSN L, a Commit
\* item with position L is in the queue's history, and when the driver is
\* between ticks with the queue empty both last_received and last_commit are L.
C15_CommitItemEnqueued ==
    (cdc.commit_lsn # NoPos /\ cdc.pc = "recv") =>
        /\ \E k \in 1 .. Len(pushed) :
              pushed[k].kind = "Commit" /\ pushed[k].pos = cdc.commit_lsn
        /\ (pPc = "check" /\ IsEmpty(buffer)) =>
              /\ last_received_position = cdc.commit_lsn
              /\ last_commit_position = cdc.commit_lsn

\* The image holds element i of the tuple under the i-th column of cols.
ImageFollows(image, cols, tuple) ==
    /\ image.some
    /\ DOMAIN image.map = {cols[i] : i \in 1 .. Len(tuple)}
    /\ \A i \in 1 .. Len(tuple) : image.map[cols[i]].idx = i

\* C16: a Relation event for rel_id r replaces the columns kept for r and
\* leaves those of every other rel_id, no other event changes them, and a row
\* decoded for r holds tuple element i under the i-th of the columns kept for
\* r, which by the above are those of the latest Relation event for r.
C16_TupleFollowsLatestRelation ==
    [][(cdc.pc = "recv" /\ cdc' # cdc) =>
          LET ev == cdc'.last.ev
              cols == cdc.rels[ev.rel].cols
          IN  /\ (ev.type = "Relation" /\ cdc'.pc # "failed") =>
                    cdc'.rels = [cdc.rels EXCEPT ![ev.rel] =
                                    [known |-> TRUE, cols |-> ev.cols,
                                     where_cols |-> ev.where_cols]]
              /\ (ev.type # "Relation" \/ cdc'.pc = "failed") => cdc'.rels = cdc.rels
              /\ (cdc'.pc = "wait" /\ ev.type \in {"Insert", "Update"}) =>
                    ImageFollows(cdc'.row.after, cols, ev.tuple)
              /\ (cdc'.pc = "wait" /\ ev.type \in {"Update", "Delete"}
                    /\ BeforeTuple(ev) # NoTuple) =>
                    ImageFollows(cdc'.row.before, cols, BeforeTuple(ev))]_vars

\* An Insert of three elements was decoded for a relation described as
\* [c3, c1, c2] while the other relation is known with other columns.
C16_Witness ==
    /\ cdc.pc = "wait"
    /\ cdc.last.ev.type = "Insert"
    /\ Len(cdc.last.ev.tuple) = 3
    /\ cdc.rels[cdc.last.ev.rel].cols = <<"c3", "c1", "c2">>
    /\ DOMAIN cdc.row.after.map = {"c1", "c2", "c3"}
    /\ cdc.row.after.map["c3"].idx = 1
    /\ \E r \in RelIds :
         /\ r # cdc.last.ev.rel
         /\ cdc.rels[r].known
         /\ cdc.rels[r].cols = <<"c1", "c2", "c3">>

\* C17: after a row event for a rel_id no Relation event described, or a
\* Relation event with an unknown type OID, extract() has returned a
\* MetadataError to its caller and no row of the event is on its way.
C17_MetadataErrorReported ==
    LET ev == cdc.last.ev
    IN  (Handled /\ (\/ ev.type \in RowTypes /\ ~cdc.rels[ev.rel].known
                     \/ ev.type = "Relation" /\ ~ev.oid_known)) =>
            /\ cdc.result = "MetadataError"
            /\ cdc.row = NoRow

HasToast(t) == t # NoTuple /\ \E i \in 1 .. Len(t) : t[i] = "Toast"

\* The tuples decode_* parses for the event.
ParsedTuples(ev) ==
    CASE ev.type = "Insert" -> {ev.tuple}
      [] ev.type = "Update" -> {ev.tuple, BeforeTuple(ev)} \ {NoTuple}
      [] OTHER -> {BeforeTuple(ev)} \ {NoTuple}

\* C18: a row event for a known relation, with tuples no longer than the
\* relation's columns and an UnchangedToast element in its new, old or key
\* tuple, ends decoding with the Unexpected error and no row; the step that
\* fails leaves the queue as it was.
C18_ToastFailsWithoutRow ==
    /\ [](LET ev == cdc.last.ev
          IN  (/\ Handled
               /\ ev.type \in RowTypes
               /\ cdc.rels[ev.rel].known
               /\ \A t \in ParsedTuples(ev) : Len(t) <= Len(cdc.rels[ev.rel].cols)
               /\ \E t \in ParsedTuples(ev) : HasToast(t)) =>
                  /\ cdc.pc = "failed"
                  /\ cdc.err = "Unexpected"
                  /\ cdc.row = NoRow)
    /\ [][(cdc.pc # "failed" /\ cdc'.pc = "failed") =>
             (buffer' = buffer /\ pushed' = pushed)]_vars

\* An Update whose key tuple has an UnchangedToast column failed while a row
\* decoded before it sits in the queue.
C18_Witness ==
    /\ cdc.pc = "failed"
    /\ cdc.err = "Unexpected"
    /\ cdc.last.ev.type = "Update"
    /\ ~HasToast(cdc.last.ev.tuple)
    /\ HasToast(cdc.last.ev.key)
    /\ Len(buffer) = 1

\* C19: a Delete with neither an old nor a key tuple, for a table with no
\* where_cols, ends in a DecodeError and no row.
C19_DeleteWithoutImageRejected ==
    LET ev == cdc.last.ev
    IN  (/\ Handled
         /\ ev.type = "Delete"
         /\ ev.old = NoTuple /\ ev.key = NoTuple
         /\ cdc.rels[ev.rel].known
         /\ cdc.rels[ev.rel].where_cols = {}) =>
            /\ cdc.err = "DecodeError"
            /\ cdc.row = NoRow

\* C20: for batch_size b >= 1 the calls made so far are the windows
\* (0, b), (b, b), ... in order, each inside the data, only the last one
\* possibly shorter than b; when the loop has ended there are ceil(n / b) of
\* them and they end at n.
C20_WindowsPartitionData ==
    bat.batch_size >= 1 =>
        /\ \A k \in 1 .. Len(bat.calls) :
              /\ bat.calls[k].start = (k - 1) * bat.batch_size
              /\ bat.calls[k].len >= 1
              /\ bat.calls[k].len <= bat.batch_size
              /\ k < Len(bat.calls) => bat.calls[k].len = bat.batch_size
              /\ bat.calls[k].start + bat.calls[k].len <= bat.all_count
        /\ bat.pc = "done" =>
              /\ Len(bat.calls) = CeilDiv(bat.all_count, bat.batch_size)
              /\ bat.sinked_count = bat.all_count
              /\ bat.calls # <<>> =>
                    bat.calls[Len(bat.calls)].start + bat.calls[Len(bat.calls)].len
                        = bat.all_count

\* The loop ended after three windows, the last one shorter than batch_size.
C20_Witness ==
    /\ bat.pc = "done"
    /\ bat.batch_size >= 2
    /\ Len(bat.calls) = 3
    /\ bat.calls[3].len < bat.batch_size

\* C21: with batch = true every Insert or Delete row of the input is sent in
\* a batched stream load of at most batch_size rows and every Update row in
\* a serial request of one row; with batch = false every row is sent in a
\* serial request.
C21_RowsRoutedByOwnType ==
    \A n \in 1 .. Len(sr.reqs) :
        LET q == sr.reqs[n]
        IN  /\ \A k \in q.rows :
                  q.path = IF sr.batch /\ sr.data[k] \in {"Insert", "Delete"}
                           THEN "batch" ELSE "serial"
            /\ q.path = "batch" => q.len <= sr.batch_size
            /\ q.path = "serial" => q.len = 1

\* C22: in every stream-load request each row travels as its before image if
\* the row is a Delete and as its after image otherwise, and the request has
\* the header columns: __op='delete' exactly if its rows are Deletes.
C22_ImageAndOpByOwnType ==
    \A n \in 1 .. Len(sr.reqs) :
        LET q == sr.reqs[n]
        IN  /\ \A k \in q.rows : (q.image = "before") <=> (sr.data[k] = "Delete")
            /\ (q.op = "delete") <=> (\A k \in q.rows : sr.data[k] = "Delete")

\* Rows the monitor has been told of by batch_sink.
RECURSIVE CountedRows(_)
CountedRows(reqs) ==
    IF reqs = <<>> THEN 0
    ELSE (IF Head(reqs).ok /\ Head(reqs).path = "batch" THEN Head(reqs).len ELSE 0)
         + CountedRows(Tail(reqs))

\* C23: a stream load is a success exactly if its status is 200 and its body
\* has Status "Success"; after any other response the call fails, the
\* monitor is not updated for that window and no later window is sent.
C23_OnlySuccessCounts ==
    /\ \A n \in 1 .. Len(sr.reqs) :
          LET q == sr.reqs[n]
          IN  /\ q.ok <=> (q.resp.status = 200 /\ q.resp.text = "Success")
              /\ ~q.ok => n = Len(sr.reqs) /\ sr.pc = "panicked"
    /\ sr.pc = "batch" \/ (sr.pc \in {"done", "panicked"} /\ sr.reqs # <<>>
                           /\ sr.reqs[1].path = "batch")
          => sr.monitor = CountedRows(sr.reqs)
    /\ sr.pc = "serial" \/ (sr.pc = "panicked" /\ sr.reqs # <<>>
                            /\ sr.reqs[1].path = "serial")
          => sr.monitor = 0

\* The second window of a batch of three got status 200 with a Status other
\* than "Success": the first window is counted, the third row is never sent.
C23_Witness ==
    /\ sr.pc = "panicked"
    /\ Len(sr.data) = 3
    /\ Len(sr.reqs) = 2
    /\ sr.reqs[1].ok
    /\ sr.reqs[2].path = "batch"
    /\ sr.reqs[2].resp = [status |-> 200, text |-> "Fail"]
    /\ sr.monitor = 1

\* C24: in send_avro the send of every row of the batch has been issued to
\* the producer before any delivery result is awaited, so that all sends
\* have been issued when a delivery error is observed.
C24_AllSentBeforeAwait ==
    kf.pc = "await" \/ kf.cause = "delivery" => kf.sent = Len(kf.ids)

\* The driver's tick is on the batch whose delivery failed in send_avro.
TickOnFailedDelivery ==
    /\ pPc = "sink"
    /\ TickCallsDml
    /\ kf.ids = TickRows
    /\ kf.pc = "err"
    /\ kf.cause = "delivery"

\* C25: if a delivery result of a Kafka batch is an error, sink_dml fails
\* with exactly one error for the batch, the monitor is not updated for the
\* batch, and the driver's tick advances neither received_position nor
\* committed_position.
C25_DeliveryErrorFailsBatch ==
    /\ [](\A n \in 1 .. Len(kf.results) :
            ~kf.results[n] =>
               /\ n = Len(kf.results)
               /\ kf.pc = "err"
               /\ kf.errors = 1
               /\ kf.mon_batch = 0)
    /\ [][TickOnFailedDelivery /\ pPc' # pPc =>
            /\ pPc' = "panicked"
            /\ UNCHANGED <<syncer, last_received_position, last_commit_position>>]_vars

\* The second of three deliveries failed after an earlier batch had been
\* sunk; the third result was never awaited and the tick has ended.
C25_Witness ==
    /\ pPc = "panicked"
    /\ kf.pc = "err"
    /\ kf.cause = "delivery"
    /\ Len(kf.ids) = 2
    /\ kf.results = <<TRUE, FALSE>>
    /\ kf.mon_batch = 0
    /\ Len(sunk) = 2
    /\ syncer.received_position # NoPos

\* C26: when a sinker or the parallelizer reports an error during a tick,
\* start() ends the tick and hands the error to its caller as its result:
\* it does not end by a panic.
C26_SinkErrorReturned ==
    fault \in {"transformer", "parallelizer", "refresh_meta"} => pPc # "panicked"

\* C29: a tick drains the queue, and restarts the time since the last drain,
\* exactly if at least batch_sink_interval_secs have passed since the last
\* drain or the queue is full; otherwise its batch is empty, the queue keeps
\* its items and the time since the last drain is not restarted.
C29_DrainIffDueOrFull ==
    [][pPc = "decide" /\ pPc' # pPc =>
         IF sinkElapsed >= cfg.batch_sink_interval_secs \/ Len(buffer) = QueueCap
         THEN pPc' = "drain" /\ sinkElapsed' = 0
         ELSE /\ pPc' = "sink"
              /\ data' = <<>>
              /\ buffer' = buffer
              /\ sinkElapsed' = sinkElapsed]_vars

\* A tick that did not drain: the queue holds an item, the interval has not
\* passed and the batch is empty.
C29_Witness ==
    /\ pPc = "sink"
    /\ data = <<>>
    /\ buffer # <<>>
    /\ ~IsFull(buffer)
    /\ sinkElapsed < cfg.batch_sink_interval_secs

\* The items of a batch that are neither Begin nor Commit.
Classifying(d) == SelectSeq(d, LAMBDA i : i.kind \notin {"Begin", "Commit"})

\* The sink method the first classifying item stands for.
MethodOfFirst(d) ==
    IF Classifying(d) = <<>> THEN "Raw"
    ELSE LET k == Classifying(d)[1].kind
         IN  IF k = "Ddl" THEN "Ddl" ELSE IF k = "Dml" THEN "Dml" ELSE "Raw"

\* C30: a batch is classified by its first item that is neither Begin nor
\* Commit (Ddl gives Ddl, Dml gives Dml, Redis gives Raw); an empty batch or
\* one of Begin/Commit items only is Raw. The tick's call is of that method.
C30_ClassifiedByFirstPayload ==
    /\ [](pPc = "sink" => get_sink_method(data) = MethodOfFirst(data))
    /\ [][Len(sunk') > Len(sunk) =>
            sunk'[Len(sunk')].method = MethodOfFirst(data)]_vars

\* A batch that starts with a Begin or Commit item followed by a Ddl item.
C30_Witness ==
    /\ pPc = "sink"
    /\ Len(data) >= 2
    /\ data[1].kind \in {"Begin", "Commit"}
    /\ data[2].kind = "Ddl"
    /\ get_sink_method(data) = "Ddl"

\* Whether image f ("before" or "after") of a row is present.
Present(r, f) == IF "rel" \in DOMAIN r THEN r[f].some ELSE r[f]

PresenceRule(r) ==
    CASE r.row_type = "Insert" -> Present(r, "after") /\ ~Present(r, "before")
      [] r.row_type = "Delete" -> Present(r, "before") /\ ~Present(r, "after")
      [] r.row_type = "Update" -> Present(r, "before") /\ Present(r, "after")
      [] OTHER -> FALSE

\* C27: every row either extractor enqueues, and so every row the driver
\* emits for a batch classified Dml, is an Insert with only an after image,
\* a Delete with only a before image or an Update with both.
C27_PresenceRule ==
    /\ \A n \in 1 .. Len(pushed) : PresenceRule(pushed[n])
    /\ \A n \in 1 .. Len(buffer) : PresenceRule(buffer[n])
    /\ pPc = "sink" /\ get_sink_method(data) = "Dml" =>
          LET rows == Fetch("Dml", data).data
          IN  \A n \in 1 .. Len(rows) : PresenceRule(rows[n])

\* The driver emits a batch that holds an Update and a Delete of the CDC
\* extractor.
C27_Witness ==
    /\ pPc = "sink"
    /\ get_sink_method(data) = "Dml"
    /\ LET rows == Fetch("Dml", data).data
       IN  /\ \E n \in 1 .. Len(rows) :
                 rows[n].row_type = "Update" /\ rows[n].before.some /\ rows[n].after.some
           /\ \E n \in 1 .. Len(rows) :
                 rows[n].row_type = "Delete" /\ rows[n].before.some /\ ~rows[n].after.some

\* The driver emits a batch of two rows of the snapshot extractor.
C27_SnapshotRowsEmitted ==
    /\ pPc = "sink"
    /\ cfg.source = "snapshot"
    /\ Len(Fetch("Dml", data).data) = 2

\* The rows of the sink_dml calls that returned Ok, in call order.
AppliedIds == ConcatIds(SelectSeq(sunk, LAMBDA c : c.ok))

\* The table of the target: the changes of those rows, applied in that order.
Target == ApplyAll([k \in 1 .. Len(AppliedIds) |-> pushed[AppliedIds[k]]], EmptyTable)

\* The table of the source after its first n changes.
SourceAfter(n) == ApplyAll(SubSeq(Script, 1, n), EmptyTable)

HasKind(d, k) == \E n \in 1 .. Len(d) : d[n].kind = k

\* C31: a drained batch that holds both Ddl and Dml items, in any order, is
\* classified Ddl.
C31_MixedBatchIsDdl ==
    pPc = "sink" /\ HasKind(data, "Ddl") /\ HasKind(data, "Dml")
        => get_sink_method(data) = "Ddl"

\* The last position among the items of d whose kind is in kinds (NoPos if
\* there is none).
RECURSIVE LastPosOf(_, _)
LastPosOf(d, kinds) ==
    IF d = <<>> THEN NoPos
    ELSE IF d[Len(d)].kind \in kinds THEN d[Len(d)].pos
    ELSE LastPosOf(SubSeq(d, 1, Len(d) - 1), kinds)

\* C32: in fetch_raw, fetch_dml and fetch_ddl the returned last_commit is
\* the position of the last Commit item of the batch (none without a
\* Commit): Dml, Ddl and Redis items move last_received only.
C32_OnlyCommitMovesLastCommit ==
    pPc = "sink" =>
        Fetch(get_sink_method(data), data).last_commit = LastPosOf(data, {"Commit"})

\* The image is the tuple decoded under the columns cols.
DecodedFrom(image, cols, tuple) ==
    /\ Len(tuple) <= Len(cols)
    /\ ImageFollows(image, cols, tuple)

\* C33: the before image of a decoded Update is the decoded old tuple if the
\* event has one, else the decoded key tuple if it has one, else the entries
\* of the after image under where_cols if where_cols is not empty, else the
\* empty map; the after image is the decoded new tuple.
C33_UpdateBeforePrecedence ==
    [][(cdc.pc = "recv" /\ cdc'.pc = "wait" /\ cdc'.last.ev.type = "Update") =>
          LET ev == cdc'.last.ev
              meta == cdc.rels[ev.rel]
              row == cdc'.row
          IN  /\ row.row_type = "Update"
              /\ DecodedFrom(row.after, meta.cols, ev.tuple)
              /\ IF ev.old # NoTuple
                 THEN DecodedFrom(row.before, meta.cols, ev.old)
                 ELSE IF ev.key # NoTuple
                 THEN DecodedFrom(row.before, meta.cols, ev.key)
                 ELSE IF meta.where_cols # {}
                 THEN /\ row.before.some
                      /\ row.before.map = [c \in meta.where_cols |-> row.after.map[c]]
                 ELSE row.before = [some |-> TRUE, map |-> EmptyMap]]_vars

\* An Update without old and key tuple was decoded on a relation with
\* where_cols: its before image is the after image cut to where_cols.
C33_Witness ==
    /\ cdc.pc = "wait"
    /\ cdc.last.ev.type = "Update"
    /\ cdc.last.ev.old = NoTuple
    /\ cdc.last.ev.key = NoTuple
    /\ cdc.rels[cdc.last.ev.rel].where_cols # {}
    /\ DOMAIN cdc.row.before.map = cdc.rels[cdc.last.ev.rel].where_cols
    /\ DOMAIN cdc.row.before.map # DOMAIN cdc.row.after.map

\* An Update with a key tuple was decoded: its before image is that tuple.
C33_KeyTupleDecoded ==
    /\ cdc.pc = "wait"
    /\ cdc.last.ev.type = "Update"
    /\ cdc.last.ev.key # NoTuple
    /\ cdc.row.before.map # EmptyMap

\* C34: syncer.committed_position is written only on a tick at which at
\* least checkpoint_interval_secs have passed since the last checkpoint and
\* a Commit position has been seen, and is then the most recent last_commit;
\* every other tick leaves it as it is.
C34_CommittedWrittenAtCheckpoint ==
    [][/\ syncer'.committed_position # syncer.committed_position =>
             /\ pPc = "sink"
             /\ ckptElapsed >= cfg.checkpoint_interval_secs
             /\ last_commit_position' # NoPos
             /\ syncer'.committed_position = last_commit_position'
       /\ (pPc = "sink" /\ pPc' = "check") =>
             syncer'.committed_position =
                 IF ckptElapsed >= cfg.checkpoint_interval_secs
                    /\ last_commit_position' # NoPos
                 THEN last_commit_position'
                 ELSE syncer.committed_position]_vars

\* With an interval of one second, a first Commit position has been written
\* to the syncer and a later one is remembered but not yet written.
C34_Witness ==
    /\ cfg.checkpoint_interval_secs = MaxInterval
    /\ syncer.committed_position # NoPos
    /\ last_commit_position > syncer.committed_position
    /\ ckptElapsed < cfg.checkpoint_interval_secs

\* C35: the configured transformer runs once on each tick whose batch is
\* classified Dml and yields a row, after fetch_dml and before the
\* parallelizer's sink_dml, which gets the rows that went through it; it
\* does not run on a Ddl or Raw tick or on an empty batch; if it fails, the
\* parallelizer is not called on that tick and no position advances.
C35_TransformerOnDmlOnly ==
    [][pPc = "sink" /\ pPc' # pPc =>
         LET rows == fetch_dml(data).data
             hook == /\ get_sink_method(data) = "Dml"
                     /\ rows # <<>>
                     /\ cfg.lua_processor
             called == Len(sunk') > Len(sunk)
             call == sunk'[Len(sunk')]
         IN  /\ called => call.lua = hook
             /\ (called /\ hook) => (call.method = "Dml" /\ call.ids = IdSeq(rows))
             /\ hook => (called \/ fault' = "transformer")
             /\ fault' = "transformer" =>
                   /\ hook
                   /\ ~called
                   /\ pPc' = "panicked"
                   /\ UNCHANGED <<syncer, last_received_position,
                                  last_commit_position, sinkerMeta>>]_vars

\* The transformer ran before a sink_dml call that returned Ok, and failed
\* on a later tick.
C35_Witness ==
    /\ fault = "transformer"
    /\ pPc = "panicked"
    /\ Len(sunk) = 1
    /\ sunk[1].lua
    /\ sunk[1].ok
    /\ syncer.received_position # NoPos

\* C36: extract_by_slices issues the query without WHERE once; every later
\* query binds the order_col value of the last row of the slice before it,
\* so the bound values strictly increase, whatever the table holds.
C36_BoundValuesIncrease ==
    [][(ext.pc = "query" /\ ext'.pc = "fetch" /\ ext.queries >= 1) =>
          /\ ext'.bound # ColNone
          /\ ext'.bound > ext.bound]_vars

\* C37: extract_by_slices leaves its loop on every finite table for every
\* slice_size, 0 and 1 included (unless the task has failed, or the scan has
\* pushed as many rows as the model follows).
C37_SliceScanTerminates ==
    ext.order_col
       ~> (ext.pc \in {"wait", "flag", "done"} \/ pPc = "panicked"
              \/ Len(pushed) = PushCap)

\* The windows of the calls made that hold row r (0-based).
WindowsHolding(r) ==
    {k \in 1 .. Len(bat.calls) :
        bat.calls[k].start <= r /\ r < bat.calls[k].start + bat.calls[k].len}

\* C38: for every data length and every batch_size, 0 and values above the
\* length included, when call_batch_fn has completed each row has been
\* passed to the batch function in exactly one window.
C38_EveryRowInOneWindow ==
    bat.pc = "done" =>
        \A r \in 0 .. bat.all_count - 1 : Cardinality(WindowsHolding(r)) = 1

\* C39: when start() has returned after shutdown without a sink failure,
\* syncer.committed_position is the position of the last Commit item that
\* was drained, whatever checkpoint_interval_secs is.
C39_LastCommitRecordedAtExit ==
    (pPc = "returned" /\ fault = "none" /\ cfg.source = "rdb") =>
        syncer.committed_position = LastPosOf(drained, {"Commit"})

\* Every item of the batch is a Begin or a Commit (an empty batch included).
DelimitersOnly(d) == \A n \in 1 .. Len(d) : d[n].kind \in {"Begin", "Commit"}

\* C40: a tick whose batch is empty or holds only Begin/Commit items makes
\* no parallelizer call, no refresh_meta and no transformer call and counts
\* 0 rows; no Begin or Commit item is ever handed to a sinker; a Commit in
\* such a batch still advances received_position and the remembered
\* last_commit, and an empty batch leaves received_position as it is.
C40_DelimitersAreNotPayload ==
    /\ [](\A c \in 1 .. Len(sunk) : \A k \in 1 .. Len(sunk[c].ids) :
             pushed[sunk[c].ids[k]].kind \notin {"Begin", "Commit"})
    /\ [][(pPc = "sink" /\ pPc' # pPc /\ DelimitersOnly(data)) =>
            LET commit == LastPosOf(data, {"Commit"})
            IN  /\ Len(Fetch(get_sink_method(data), data).data) = 0
                /\ pPc' = "check"
                /\ UNCHANGED <<sunk, sinkerMeta, fault>>
                /\ IF commit # NoPos
                   THEN /\ syncer'.received_position = commit
                        /\ last_received_position' = commit
                        /\ last_commit_position' = commit
                   ELSE /\ syncer'.received_position = syncer.received_position
                        /\ UNCHANGED <<last_received_position,
                                       last_commit_position>>]_vars

\* Ticks on a Begin and a Commit item have passed: nothing was handed to a
\* sinker and the Commit's position is the received and remembered one.
C40_Witness ==
    /\ pPc = "check"
    /\ Len(drained) >= 2
    /\ DelimitersOnly(drained)
    /\ IsEmpty(buffer)
    /\ sunk = <<>>
    /\ syncer.received_position = LastPosOf(drained, {"Commit"})
    /\ last_commit_position = syncer.received_position
    /\ syncer.received_position # NoPos

=============================================================================
